---- MODULE Spec2Model ----
(***************************************************************************)
(* Portcullis BAM filter (src/src/bam_filter.cc): the junction containment *)
(* check, the MSR clipping engine and the per-record filtering loop, over  *)
(* the CIGAR model of lib/include/portcullis/bam/bam_alignment.hpp.        *)
(*                                                                         *)
(* An operation is a record [type, length]; an alignment is a record       *)
(* [refId, position, cigar]; a junction (Intron) is <<refId, start, end>>. *)
(* Sequences are 1-based here: the operation the code calls index c is     *)
(* cigar[c + 1].                                                           *)
(***************************************************************************)
EXTENDS Integers, Sequences, FiniteSets, TLC

(* ------------------------------ bounds --------------------------------- *)

\* longest generated operation sequence
MaxOps == 3

\* largest generated operation length
MaxLen == 2

\* most ReferenceSkips in a read of the filtered stream
MaxSkips == 2

\* most records in the filtered stream
MaxReads == 2

\* most junctions in the junction file of a filtering run
MaxJs == 2

(* --------------------------- CIGAR constants --------------------------- *)

BAM_CIGAR_MATCH_CHAR == "M"

BAM_CIGAR_INS_CHAR == "I"

BAM_CIGAR_DEL_CHAR == "D"

BAM_CIGAR_REFSKIP_CHAR == "N"

BAM_CIGAR_SOFTCLIP_CHAR == "S"

BAM_CIGAR_HARDCLIP_CHAR == "H"

BAM_CIGAR_PAD_CHAR == "P"

BAM_CIGAR_EQUAL_CHAR == "="

BAM_CIGAR_DIFF_CHAR == "X"

BAM_CIGAR_BACK_CHAR == "B"

ClipModes == {"HARD", "SOFT", "COMPLETE"}

(* ------------------------------ CigarOp -------------------------------- *)

CigarOp(type, length) == [type |-> type, length |-> length]

opConsumesQuery(op) ==
    op \in {BAM_CIGAR_MATCH_CHAR, BAM_CIGAR_INS_CHAR, BAM_CIGAR_SOFTCLIP_CHAR,
            BAM_CIGAR_EQUAL_CHAR, BAM_CIGAR_DIFF_CHAR}

opConsumesReference(op) ==
    op \in {BAM_CIGAR_MATCH_CHAR, BAM_CIGAR_DEL_CHAR, BAM_CIGAR_REFSKIP_CHAR,
            BAM_CIGAR_EQUAL_CHAR, BAM_CIGAR_DIFF_CHAR}

(* ---------------------------- BamAlignment ----------------------------- *)

BamAlignment(refId, position, cigar) ==
    [refId |-> refId, position |-> position, cigar |-> cigar]

\* BamAlignment(): the empty alignment
EmptyAlignment == BamAlignment(0, 0, << >>)

\* BamAlignment(const BamAlignment& other): a deep copy
CopyAlignment(other) == BamAlignment(other.refId, other.position, other.cigar)

\* a mutation: every operation written gets length 1
setCigarOpAt_unitLength(cigar, index, cigarOp) ==
    [cigar EXCEPT ![index] = CigarOp(cigarOp.type, 1)]

setCigarOpAt(cigar, index, cigarOp) == [cigar EXCEPT ![index] = cigarOp]

RECURSIVE getNbJunctionsFrom(_, _)
getNbJunctionsFrom(cigar, i) ==
    IF i > Len(cigar) THEN 0
    ELSE (IF cigar[i].type = BAM_CIGAR_REFSKIP_CHAR THEN 1 ELSE 0)
         + getNbJunctionsFrom(cigar, i + 1)

getNbJunctionsInRead(al) == getNbJunctionsFrom(al.cigar, 1)

isSplicedRead(al) ==
    \E i \in 1..Len(al.cigar) : al.cigar[i].type = BAM_CIGAR_REFSKIP_CHAR

isMultiplySplicedRead(al) == getNbJunctionsInRead(al) > 1

(* --------------------------- JunctionSystem ---------------------------- *)

Intron(refId, start, end) == <<refId, start, end>>

\* js.getJunction(location) != nullptr
getJunction(js, location) == location \in js

\* a mutation: the intron ends at rStart instead of rStart - 1
SkipIntron_endAtRStart(refId, lEnd, length) == Intron(refId, lEnd, lEnd + length)

\* rStart = lEnd + op.length; location = Intron(RefSeq(refId, ...), lEnd, rStart - 1)
SkipIntron(refId, lEnd, length) ==
    LET rStart == lEnd + length
    IN Intron(refId, lEnd, rStart - 1)

(* --------------------- containsJunctionInSystem ------------------------ *)

\* The loop of containsJunctionInSystem from index i with cursor lEnd;
\* lookups is the sequence of <<index, junction>> queries made so far.
RECURSIVE containsLoop(_, _, _, _, _)
containsLoop(al, js, i, lEnd, lookups) ==
    IF i > Len(al.cigar) THEN [found |-> FALSE, lookups |-> lookups]
    ELSE LET op == al.cigar[i] IN
         IF op.type = BAM_CIGAR_REFSKIP_CHAR
         THEN LET location == SkipIntron(al.refId, lEnd, op.length)
                  asked == Append(lookups, <<i, location>>)
              IN IF getJunction(js, location)
                 THEN [found |-> TRUE, lookups |-> asked]
                 ELSE containsLoop(al, js, i + 1, lEnd, asked)
         ELSE IF opConsumesReference(op.type)
         THEN containsLoop(al, js, i + 1, lEnd + op.length, lookups)
         ELSE containsLoop(al, js, i + 1, lEnd, lookups)

containsJunctionInSystem(al, js) ==
    containsLoop(al, js, 1, al.position, << >>)

(* ------------------------------- clipMSR ------------------------------- *)

\* a mutation: hard clipping substitutes the soft clip kind
ModOp_hardIsSoft(clipMode) ==
    IF clipMode = "COMPLETE" THEN BAM_CIGAR_DEL_CHAR ELSE BAM_CIGAR_SOFTCLIP_CHAR

\* a mutation: hard clipping substitutes the deletion kind
ModOp_hardIsDel(clipMode) ==
    IF clipMode = "SOFT" THEN BAM_CIGAR_SOFTCLIP_CHAR ELSE BAM_CIGAR_DEL_CHAR

ModOp(clipMode) ==
    IF clipMode = "HARD" THEN BAM_CIGAR_HARDCLIP_CHAR
    ELSE IF clipMode = "SOFT" THEN BAM_CIGAR_SOFTCLIP_CHAR
    ELSE BAM_CIGAR_DEL_CHAR

\* for (j = from; j < to; j++) modifiedAlignment->setCigarOpAt(j, CigarOp(modOp, al[j].length))
RECURSIVE clipRange(_, _, _, _, _)
clipRange(cigar, orig, modOp, j, to) ==
    IF j >= to THEN cigar
    ELSE clipRange(setCigarOpAt(cigar, j, CigarOp(modOp, orig[j].length)),
                   orig, modOp, j + 1, to)

\* a mutation: the region to clip always starts after the previous skip
ClipFrom_afterPreviousSkip(lastGood, i, opStart) == opStart

\* if (lastGood) opStart = i: where the clipping before an untrusted skip starts
ClipFrom(lastGood, i, opStart) == IF lastGood THEN i ELSE opStart

\* The loop of clipMSR from index i; st holds the locals lEnd, opStart,
\* lastGood, ab, the cigar of modifiedAlignment and the lookups made so far.
RECURSIVE clipLoop(_, _, _, _, _)
clipLoop(al, js, modOp, i, st) ==
    IF i > Len(al.cigar) THEN st
    ELSE LET op == al.cigar[i] IN
         IF op.type = BAM_CIGAR_REFSKIP_CHAR
         THEN LET location == SkipIntron(al.refId, st.lEnd, op.length)
                  asked == Append(st.lookups, <<i, location>>)
              IN IF getJunction(js, location)
                 THEN clipLoop(al, js, modOp, i + 1,
                               [st EXCEPT !.ab = FALSE, !.lastGood = TRUE,
                                          !.opStart = i + 1, !.lookups = asked])
                 ELSE LET from == ClipFrom(st.lastGood, i, st.opStart)
                      IN clipLoop(al, js, modOp, i + 1,
                               [st EXCEPT !.cigar = clipRange(@, al.cigar, modOp, from, i),
                                          !.lastGood = FALSE,
                                          !.opStart = i + 1, !.lookups = asked])
         ELSE IF opConsumesReference(op.type)
         THEN clipLoop(al, js, modOp, i + 1, [st EXCEPT !.lEnd = @ + op.length])
         ELSE clipLoop(al, js, modOp, i + 1, st)

\* a mutation: the rewrite is applied to the caller's alignment as well
clipMSR_inPlace(al, js, clipMode) ==
    LET modOp == ModOp(clipMode)
        st == clipLoop(al, js, modOp, 1,
                       [lEnd |-> al.position, opStart |-> 1, lastGood |-> FALSE,
                        ab |-> TRUE, cigar |-> al.cigar, lookups |-> << >>])
        cigar == IF st.lastGood THEN st.cigar
                 ELSE clipRange(st.cigar, al.cigar, modOp, st.opStart, Len(al.cigar) + 1)
    IN [al |-> BamAlignment(al.refId, al.position, cigar),
        modifiedAlignment |-> BamAlignment(al.refId, al.position, cigar),
        allBad |-> st.ab, lookups |-> st.lookups]

\* a mutation: the operations after the last skip are never rewritten
clipMSR_noTail(al, js, clipMode) ==
    LET modifiedAlignment == CopyAlignment(al)
        modOp == ModOp(clipMode)
        st == clipLoop(al, js, modOp, 1,
                       [lEnd |-> al.position, opStart |-> 1, lastGood |-> FALSE,
                        ab |-> TRUE, cigar |-> modifiedAlignment.cigar,
                        lookups |-> << >>])
    IN [al |-> al,
        modifiedAlignment |-> [modifiedAlignment EXCEPT !.cigar = st.cigar],
        allBad |-> st.ab, lookups |-> st.lookups]

\* clipMSR: al is the caller's alignment after the call, modifiedAlignment
\* the returned copy, allBad the out-parameter.
clipMSR(al, js, clipMode) ==
    LET modifiedAlignment == CopyAlignment(al)
        modOp == ModOp(clipMode)
        st == clipLoop(al, js, modOp, 1,
                       [lEnd |-> al.position, opStart |-> 1, lastGood |-> FALSE,
                        ab |-> TRUE, cigar |-> modifiedAlignment.cigar,
                        lookups |-> << >>])
        cigar == IF st.lastGood THEN st.cigar
                 ELSE clipRange(st.cigar, al.cigar, modOp, st.opStart, Len(al.cigar) + 1)
    IN [al |-> al,
        modifiedAlignment |-> [modifiedAlignment EXCEPT !.cigar = cigar],
        allBad |-> st.ab, lookups |-> st.lookups]

(* ------------------------------- state --------------------------------- *)

VARIABLES
    clipMode,            \* BamFilter::clipMode
    saveMSRs,            \* BamFilter::saveMSRs
    js,                  \* the JunctionSystem: a set of junctions
    pc,                  \* position in filter() / in the direct call
    al,                  \* reader.current(), or the argument of the call
    clipped,             \* the alignment returned by clipMSR
    allBad,              \* the out-parameter of clipMSR
    found,               \* the result of containsJunctionInSystem
    lookups,             \* the getJunction queries of the last call
    writer,              \* records written to the primary sink
    mod,                 \* records written to <output>.mod.bam
    unmod,               \* records written to <output>.unmod.bam
    nbReadsIn,
    nbReadsOut,
    nbReadsModifiedOut,
    junctionFileExists,  \* bfs::exists(junctionFile)
    bamFileExists,       \* bfs::exists(bamFile)
    refs,                \* size of the reference list of the BAM header
    opened               \* what filter() has loaded or opened and not closed

vars == <<clipMode, saveMSRs, js, pc, al, clipped, allBad, found, lookups,
          writer, mod, unmod, nbReadsIn, nbReadsOut, nbReadsModifiedOut,
          junctionFileExists, bamFileExists, refs, opened>>

\* what a run is started with: the options, the junction file's contents,
\* the two existence tests and the reference list
config == <<clipMode, saveMSRs, js, junctionFileExists, bamFileExists, refs>>

sinks == <<writer, mod, unmod>>

counters == <<nbReadsIn, nbReadsOut, nbReadsModifiedOut>>

(* ------------------------------ inputs --------------------------------- *)

InputKinds == {BAM_CIGAR_MATCH_CHAR, BAM_CIGAR_INS_CHAR, BAM_CIGAR_DEL_CHAR,
               BAM_CIGAR_REFSKIP_CHAR, BAM_CIGAR_HARDCLIP_CHAR}

InputOps == {CigarOp(k, n) : k \in InputKinds, n \in 1..MaxLen}

Cigars == UNION {[1..n -> InputOps] : n \in 0..MaxOps}

\* leftmost positions of the generated alignments
Positions == {0, 3}

\* M (N M)^k: k skips of length 2 separated by single matched bases
RECURSIVE SplicedCigar(_)
SplicedCigar(k) ==
    IF k = 0 THEN <<CigarOp(BAM_CIGAR_MATCH_CHAR, 1)>>
    ELSE SplicedCigar(k - 1)
         \o <<CigarOp(BAM_CIGAR_REFSKIP_CHAR, 2), CigarOp(BAM_CIGAR_MATCH_CHAR, 1)>>

\* the doubly spliced read 50M 200N 30M 500N 20M at position start
ExampleMSR(start) ==
    BamAlignment(0, start,
                 <<CigarOp(BAM_CIGAR_MATCH_CHAR, 50), CigarOp(BAM_CIGAR_REFSKIP_CHAR, 200),
                   CigarOp(BAM_CIGAR_MATCH_CHAR, 30), CigarOp(BAM_CIGAR_REFSKIP_CHAR, 500),
                   CigarOp(BAM_CIGAR_MATCH_CHAR, 20)>>)

\* a singly spliced read with an insertion and a deletion before its skip
IndelRead ==
    BamAlignment(0, 3,
                 <<CigarOp(BAM_CIGAR_INS_CHAR, 1), CigarOp(BAM_CIGAR_DEL_CHAR, 2),
                   CigarOp(BAM_CIGAR_REFSKIP_CHAR, 1), CigarOp(BAM_CIGAR_MATCH_CHAR, 1)>>)

\* the records the reader can deliver
StreamReads ==
    {BamAlignment(0, 0, SplicedCigar(k)) : k \in 0..MaxSkips}
    \cup {ExampleMSR(start) : start \in Positions}
    \cup {IndelRead}

\* the alignments the two walks are called with
Alignments ==
    {BamAlignment(0, p, c) : p \in Positions, c \in Cigars} \cup StreamReads

SkipIndices(a) ==
    {i \in 1..Len(a.cigar) : a.cigar[i].type = BAM_CIGAR_REFSKIP_CHAR}

RECURSIVE SumOver(_, _)
\* sum of the lengths of the operations of cigar at the indices in I
SumOver(cigar, I) ==
    IF I = {} THEN 0
    ELSE LET i == CHOOSE x \in I : TRUE
         IN cigar[i].length + SumOver(cigar, I \ {i})

\* sum of the lengths of the reference-consuming operations
ReferenceLength(cigar) ==
    SumOver(cigar, {i \in 1..Len(cigar) : opConsumesReference(cigar[i].type)})

\* sum of the lengths of the query-consuming operations
QueryLength(cigar) ==
    SumOver(cigar, {i \in 1..Len(cigar) : opConsumesQuery(cigar[i].type)})

\* the junction of the skip at index i in reference coordinates: it starts
\* after every reference-consuming operation before it, skips included
DerivedJunction(a, i) ==
    LET s == a.position
             + SumOver(a.cigar, {k \in 1..(i - 1) : opConsumesReference(a.cigar[k].type)})
    IN <<a.refId, s, s + a.cigar[i].length - 1>>

\* the same with the earlier skips left out of the start
ShiftedJunction(a, i) ==
    LET s == a.position
             + SumOver(a.cigar, {k \in 1..(i - 1) :
                                   /\ opConsumesReference(a.cigar[k].type)
                                   /\ a.cigar[k].type # BAM_CIGAR_REFSKIP_CHAR})
    IN <<a.refId, s, s + a.cigar[i].length - 1>>

JunctionCandidates(a) ==
    {DerivedJunction(a, i) : i \in SkipIndices(a)}
    \cup {ShiftedJunction(a, i) : i \in SkipIndices(a)}

(* --------------- direct calls of the two junction walks ---------------- *)

InitCall ==
    /\ clipMode \in ClipModes
    /\ saveMSRs = FALSE
    /\ al \in Alignments
    /\ js \in SUBSET JunctionCandidates(al)
    /\ pc = "call"
    /\ junctionFileExists = TRUE /\ bamFileExists = TRUE
    /\ refs = 1
    /\ opened = {}
    /\ clipped = EmptyAlignment
    /\ allBad = FALSE
    /\ found = FALSE
    /\ lookups = << >>
    /\ writer = << >> /\ mod = << >> /\ unmod = << >>
    /\ nbReadsIn = 0 /\ nbReadsOut = 0 /\ nbReadsModifiedOut = 0

CallClipMSR ==
    /\ pc = "call"
    /\ LET r == clipMSR(al, js, clipMode)
       IN /\ al' = r.al
          /\ clipped' = r.modifiedAlignment
          /\ allBad' = r.allBad
          /\ lookups' = r.lookups
    /\ pc' = "clipped"
    /\ UNCHANGED <<config, opened, found, sinks, counters>>

CallContains ==
    /\ pc = "call"
    /\ LET r == containsJunctionInSystem(al, js)
       IN /\ found' = r.found
          /\ lookups' = r.lookups
    /\ pc' = "checked"
    /\ UNCHANGED <<config, opened, al, clipped, allBad, sinks, counters>>

NextCall == CallClipMSR \/ CallContains

SpecCall == InitCall /\ [][NextCall]_vars

(* --------------------------- filter(): inputs -------------------------- *)

JunctionUniverse == UNION {JunctionCandidates(a) : a \in StreamReads}

RECURSIVE SubsetsUpTo(_, _)
\* the subsets of S with at most k elements
SubsetsUpTo(S, k) ==
    IF k = 0 THEN {{}}
    ELSE LET smaller == SubsetsUpTo(S, k - 1)
         IN smaller \cup {T \cup {x} : T \in smaller, x \in S}

(* ------------------------------ filter() ------------------------------- *)

\* what filter() holds on entry to the record loop: the junctions, the
\* reader, the primary writer and, with saveMSRs, the two MSR writers
Handles(save) ==
    {"junctions", "reader", "writer"}
    \cup (IF save THEN {"mod", "unmod"} ELSE {})

\* the state on entry to the record loop: junctions loaded, reader and
\* writers open, counters zero
Init ==
    /\ clipMode \in ClipModes
    /\ saveMSRs \in BOOLEAN
    /\ js \in SubsetsUpTo(JunctionUniverse, MaxJs)
    /\ pc = "read"
    /\ junctionFileExists = TRUE /\ bamFileExists = TRUE
    /\ refs = 1
    /\ opened = Handles(saveMSRs)
    /\ al = EmptyAlignment
    /\ clipped = EmptyAlignment
    /\ allBad = FALSE
    /\ found = FALSE
    /\ lookups = << >>
    /\ writer = << >> /\ mod = << >> /\ unmod = << >>
    /\ nbReadsIn = 0 /\ nbReadsOut = 0 /\ nbReadsModifiedOut = 0

\* ReadNext writing the record to the primary sink as soon as it is read
ReadNext_writesOnRead ==
    /\ pc = "read"
    /\ nbReadsIn < MaxReads
    /\ \E r \in StreamReads : al' = r
    /\ writer' = Append(writer, al')
    /\ nbReadsIn' = nbReadsIn + 1
    /\ clipped' = EmptyAlignment
    /\ allBad' = FALSE
    /\ found' = FALSE
    /\ lookups' = << >>
    /\ pc' = "route"
    /\ UNCHANGED <<config, opened, mod, unmod, nbReadsOut, nbReadsModifiedOut>>

\* reader.next() delivers a record
ReadNext ==
    /\ pc = "read"
    /\ nbReadsIn < MaxReads
    /\ \E r \in StreamReads : al' = r
    /\ nbReadsIn' = nbReadsIn + 1
    /\ clipped' = EmptyAlignment
    /\ allBad' = FALSE
    /\ found' = FALSE
    /\ lookups' = << >>
    /\ pc' = "route"
    /\ UNCHANGED <<config, opened, sinks, nbReadsOut, nbReadsModifiedOut>>

\* RouteUnspliced counting the read as modified too
RouteUnspliced_countsModified ==
    /\ pc = "route"
    /\ ~isSplicedRead(al)
    /\ writer' = Append(writer, al)
    /\ nbReadsOut' = nbReadsOut + 1
    /\ nbReadsModifiedOut' = nbReadsModifiedOut + 1
    /\ pc' = "read"
    /\ UNCHANGED <<config, opened, al, clipped, allBad, found, lookups, mod, unmod,
                   nbReadsIn>>

\* an unspliced read is added to the output
RouteUnspliced ==
    /\ pc = "route"
    /\ ~isSplicedRead(al)
    /\ writer' = Append(writer, al)
    /\ nbReadsOut' = nbReadsOut + 1
    /\ pc' = "read"
    /\ UNCHANGED <<config, opened, al, clipped, allBad, found, lookups, mod, unmod,
                   nbReadsIn, nbReadsModifiedOut>>

\* RouteContains dropping a read equal to the record last written
RouteContains_dropsRepeats ==
    /\ pc = "route"
    /\ isSplicedRead(al)
    /\ clipMode = "COMPLETE" \/ ~isMultiplySplicedRead(al)
    /\ LET r == containsJunctionInSystem(al, js)
       IN /\ found' = r.found
          /\ lookups' = r.lookups
          /\ IF r.found /\ (writer = << >> \/ writer[Len(writer)] # al)
             THEN /\ writer' = Append(writer, al)
                  /\ nbReadsOut' = nbReadsOut + 1
             ELSE UNCHANGED <<writer, nbReadsOut>>
    /\ pc' = "read"
    /\ UNCHANGED <<config, opened, al, clipped, allBad, mod, unmod,
                   nbReadsIn, nbReadsModifiedOut>>

\* complete clip mode, or a singly spliced read: keep it if a junction is found
RouteContains ==
    /\ pc = "route"
    /\ isSplicedRead(al)
    /\ clipMode = "COMPLETE" \/ ~isMultiplySplicedRead(al)
    /\ LET r == containsJunctionInSystem(al, js)
       IN /\ found' = r.found
          /\ lookups' = r.lookups
          /\ IF r.found
             THEN /\ writer' = Append(writer, al)
                  /\ nbReadsOut' = nbReadsOut + 1
             ELSE UNCHANGED <<writer, nbReadsOut>>
    /\ pc' = "read"
    /\ UNCHANGED <<config, opened, al, clipped, allBad, mod, unmod,
                   nbReadsIn, nbReadsModifiedOut>>

\* RouteClip without the write to unmod
RouteClip_noUnmod ==
    /\ pc = "route"
    /\ isSplicedRead(al)
    /\ ~(clipMode = "COMPLETE" \/ ~isMultiplySplicedRead(al))
    /\ LET r == clipMSR(al, js, clipMode)
       IN /\ al' = r.al
          /\ clipped' = r.modifiedAlignment
          /\ allBad' = r.allBad
          /\ lookups' = r.lookups
          /\ IF ~r.allBad
             THEN /\ writer' = Append(writer, r.modifiedAlignment)
                  /\ IF saveMSRs
                     THEN /\ mod' = Append(mod, r.modifiedAlignment)
                          /\ unmod' = unmod
                     ELSE UNCHANGED <<mod, unmod>>
                  /\ nbReadsModifiedOut' = nbReadsModifiedOut + 1
                  /\ nbReadsOut' = nbReadsOut + 1
             ELSE UNCHANGED <<sinks, nbReadsOut, nbReadsModifiedOut>>
    /\ pc' = "read"
    /\ UNCHANGED <<config, opened, found, nbReadsIn>>

\* HARD or SOFT clip mode and a multiply spliced read
RouteClip ==
    /\ pc = "route"
    /\ isSplicedRead(al)
    /\ ~(clipMode = "COMPLETE" \/ ~isMultiplySplicedRead(al))
    /\ LET r == clipMSR(al, js, clipMode)
       IN /\ al' = r.al
          /\ clipped' = r.modifiedAlignment
          /\ allBad' = r.allBad
          /\ lookups' = r.lookups
          /\ IF ~r.allBad
             THEN /\ writer' = Append(writer, r.modifiedAlignment)
                  /\ IF saveMSRs
                     THEN /\ mod' = Append(mod, r.modifiedAlignment)
                          /\ unmod' = Append(unmod, r.al)
                     ELSE UNCHANGED <<mod, unmod>>
                  /\ nbReadsModifiedOut' = nbReadsModifiedOut + 1
                  /\ nbReadsOut' = nbReadsOut + 1
             ELSE UNCHANGED <<sinks, nbReadsOut, nbReadsModifiedOut>>
    /\ pc' = "read"
    /\ UNCHANGED <<config, opened, found, nbReadsIn>>

\* EndOfStream leaving the two MSR writers open
EndOfStream_leavesMsrOpen ==
    /\ pc = "read"
    /\ opened' = opened \ {"reader", "writer"}
    /\ pc' = "index"
    /\ UNCHANGED <<config, al, clipped, allBad, found, lookups, sinks, counters>>

\* reader.next() reports the end of the stream: reader and writers are closed
EndOfStream ==
    /\ pc = "read"
    /\ opened' = opened \ ({"reader", "writer"}
                            \cup (IF saveMSRs THEN {"mod", "unmod"} ELSE {}))
    /\ pc' = "index"
    /\ UNCHANGED <<config, al, clipped, allBad, found, lookups, sinks, counters>>

\* the indexing command exits with 0
IndexOk ==
    /\ pc = "index"
    /\ pc' = "done"
    /\ UNCHANGED <<config, opened, al, clipped, allBad, found, lookups, sinks, counters>>

\* the indexing command exits with a non-zero code: BamFilterException
IndexFail ==
    /\ pc = "index"
    /\ pc' = "failed"
    /\ UNCHANGED <<config, opened, al, clipped, allBad, found, lookups, sinks, counters>>

Next ==
    \/ ReadNext
    \/ RouteUnspliced
    \/ RouteContains
    \/ RouteClip
    \/ EndOfStream
    \/ IndexOk
    \/ IndexFail

Spec == Init /\ [][Next]_vars

\* filter() runs to its end once the record loop is entered: the program is
\* sequential, every step of it is taken, and the stream is finite; the
\* runs start with an empty index or with the junction (0, 1, 2) in it
InitFair == Init /\ js \subseteq {<<0, 1, 2>>}

SpecFair == InitFair /\ [][Next]_vars /\ WF_vars(Next)

(* ------------------------- main(): a whole run ------------------------- *)

\* the constructor testing the junction file only
ConstructorThrows_junctionOnly(junctionFileFound, bamFileFound) ==
    ~junctionFileFound

\* the two existence tests of the constructor
ConstructorThrows(junctionFileFound, bamFileFound) ==
    ~junctionFileFound \/ ~bamFileFound

\* refs[refId] is an element of the reference list
HasReference(nbRefs, refId) == refId >= 0 /\ refId < nbRefs

\* the state before main() constructs the BamFilter
InitMain ==
    /\ clipMode \in ClipModes
    /\ saveMSRs \in BOOLEAN
    /\ junctionFileExists \in BOOLEAN
    /\ bamFileExists \in BOOLEAN
    /\ js \in IF junctionFileExists THEN SubsetsUpTo(JunctionUniverse, 1) ELSE {{}}
    /\ refs \in 0..1
    /\ opened = {}
    /\ pc = "construct"
    /\ al = EmptyAlignment
    /\ clipped = EmptyAlignment
    /\ allBad = FALSE
    /\ found = FALSE
    /\ lookups = << >>
    /\ writer = << >> /\ mod = << >> /\ unmod = << >>
    /\ nbReadsIn = 0 /\ nbReadsOut = 0 /\ nbReadsModifiedOut = 0

\* BamFilter filter(junctionFile, bamFile, outputBam), then the setters
Construct ==
    /\ pc = "construct"
    /\ pc' = IF ConstructorThrows(junctionFileExists, bamFileExists)
             THEN "failed"
             ELSE "filter"
    /\ UNCHANGED <<config, opened, al, clipped, allBad, found, lookups, sinks, counters>>

\* filter() up to the record loop: junctions loaded, reader opened, output
\* directory there or created, writers opened
OpenFilter ==
    /\ pc = "filter"
    /\ opened' = Handles(saveMSRs)
    /\ pc' = "read"
    /\ UNCHANGED <<config, al, clipped, allBad, found, lookups, sinks, counters>>

\* the output directory cannot be created, or a file has its name:
\* BamFilterException before any writer is opened
OutputDirFail ==
    /\ pc = "filter"
    /\ opened' = {"junctions", "reader"}
    /\ pc' = "failed"
    /\ UNCHANGED <<config, al, clipped, allBad, found, lookups, sinks, counters>>

\* refs[refId] with a refId outside the reference list is an unchecked
\* vector access: the process may die on it; when it does not, the walk
\* goes on with whatever it read (RouteContains, RouteClip)
BadReferenceCrash ==
    /\ pc = "route"
    /\ isSplicedRead(al)
    /\ ~HasReference(refs, al.refId)
    /\ pc' = "failed"
    /\ UNCHANGED <<config, opened, al, clipped, allBad, found, lookups, sinks, counters>>

NextMain ==
    \/ Construct
    \/ OpenFilter
    \/ OutputDirFail
    \/ BadReferenceCrash
    \/ Next

SpecMain == InitMain /\ [][NextMain]_vars

(* ======================= properties of the walks ======================= *)

\* the indices at which clipMSR changed the operation
Rewritten == {i \in 1..Len(al.cigar) : clipped.cigar[i] # al.cigar[i]}

\* C1: in Hard or Soft mode the op sequence returned by clipMSR has as many
\* operations as the input and the same length at every index; only kinds
\* may differ.
C1_ClipKeepsCountAndLengths ==
    (pc = "clipped" /\ clipMode \in {"HARD", "SOFT"}) =>
        /\ Len(clipped.cigar) = Len(al.cigar)
        /\ \A i \in 1..Len(al.cigar) : clipped.cigar[i].length = al.cigar[i].length

\* a multiply-spliced read was kept and had an operation of length 2 rewritten
C1_Witness ==
    /\ pc = "clipped" /\ clipMode = "HARD"
    /\ isMultiplySplicedRead(al) /\ ~allBad
    /\ \E i \in Rewritten : al.cigar[i].length = 2

\* C2 as claimed, for the calls of filter() whose result it writes (a
\* multiply-spliced read in Hard or Soft mode, allBad false): the
\* reference-consuming lengths of the output of clipMSR sum to those of the
\* input.
C2_ReferenceSpanPreserved ==
    (/\ pc = "clipped" /\ clipMode \in {"HARD", "SOFT"}
     /\ isMultiplySplicedRead(al) /\ ~allBad) =>
        ReferenceLength(clipped.cigar) = ReferenceLength(al.cigar)

\* C2 amended: in Hard or Soft mode the reference-consuming lengths of the
\* output sum to those of the input less the lengths of the rewritten
\* operations that consumed the reference.
C2_ReferenceSpanShrinksByClipped ==
    (pc = "clipped" /\ clipMode \in {"HARD", "SOFT"}) =>
        ReferenceLength(clipped.cigar) =
            ReferenceLength(al.cigar)
            - SumOver(al.cigar, {i \in Rewritten : opConsumesReference(al.cigar[i].type)})

\* a multiply-spliced read was kept with a shorter reference span
C2_Witness ==
    /\ pc = "clipped" /\ clipMode = "SOFT"
    /\ isMultiplySplicedRead(al) /\ ~allBad
    /\ ReferenceLength(clipped.cigar) < ReferenceLength(al.cigar)

C5_LookupsAtReferenceCoordinates ==
    pc \in {"clipped", "checked"} =>
        \A k \in 1..Len(lookups) : lookups[k][2] = DerivedJunction(al, lookups[k][1])

(* ====================== properties of the pipeline ===================== *)

\* the operations 50M 200N 30H 500H 20H
ExampleClaimedCigar ==
    <<CigarOp(BAM_CIGAR_MATCH_CHAR, 50), CigarOp(BAM_CIGAR_REFSKIP_CHAR, 200),
      CigarOp(BAM_CIGAR_HARDCLIP_CHAR, 30), CigarOp(BAM_CIGAR_HARDCLIP_CHAR, 500),
      CigarOp(BAM_CIGAR_HARDCLIP_CHAR, 20)>>

\* the operations 50M 200N 30M 500N 20H
ExampleClippedCigar ==
    <<CigarOp(BAM_CIGAR_MATCH_CHAR, 50), CigarOp(BAM_CIGAR_REFSKIP_CHAR, 200),
      CigarOp(BAM_CIGAR_MATCH_CHAR, 30), CigarOp(BAM_CIGAR_REFSKIP_CHAR, 500),
      CigarOp(BAM_CIGAR_HARDCLIP_CHAR, 20)>>

\* this step emits the clipped record: once to the primary sink and, when
\* saveMSRs is on, the rewritten copy to mod and the original to unmod
EmitsClipped ==
    /\ writer' = Append(writer, clipped')
    /\ IF saveMSRs
       THEN mod' = Append(mod, clipped') /\ unmod' = Append(unmod, al)
       ELSE mod' = mod /\ unmod' = unmod

NoneTrusted(a) == \A i \in SkipIndices(a) : DerivedJunction(a, i) \notin js

\* C6 as claimed: clipMSR sets allBad exactly when none of the read's
\* junctions is in the index, and a multiply-spliced read in Hard or Soft
\* mode with no trusted junction causes no write to any sink.
C6_AllBadIffNoneTrusted ==
    [][(/\ pc = "route" /\ clipMode \in {"HARD", "SOFT"}
        /\ isMultiplySplicedRead(al))
       => /\ allBad' <=> NoneTrusted(al)
          /\ NoneTrusted(al) => UNCHANGED sinks]_vars

\* C7: in every clip mode and for either saveMSRs, a read with exactly one
\* ReferenceSkip is written once, unchanged, to the primary sink if its
\* junction is in the index and to no sink otherwise; the auxiliary sinks
\* are never written.
C7_SingleSkipKeptIffTrusted ==
    [][(pc = "route" /\ getNbJunctionsInRead(al) = 1)
       => /\ IF NoneTrusted(al) THEN writer' = writer
                                ELSE writer' = Append(writer, al)
          /\ mod' = mod /\ unmod' = unmod]_vars

\* a trusted singly spliced read with indels was written once with saveMSRs on
C7_Witness ==
    /\ pc = "read" /\ saveMSRs /\ clipMode = "SOFT"
    /\ al = IndelRead /\ <<0, 5, 5>> \in js
    /\ nbReadsIn = 1
    /\ writer = <<al>> /\ mod = << >> /\ unmod = << >>

\* C8 as claimed: in Complete mode clipMSR is never invoked, every emitted
\* record is the input record, and a spliced read is emitted to the primary
\* sink exactly when one of its junctions is in the index.
C8_CompleteKeepsIffAnyTrusted ==
    [][(pc = "route" /\ clipMode = "COMPLETE")
       => /\ clipped' = EmptyAlignment
          /\ (writer' = writer \/ writer' = Append(writer, al))
          /\ isSplicedRead(al) =>
                IF NoneTrusted(al) THEN writer' = writer
                                   ELSE writer' = Append(writer, al)]_vars

C10_WalksLeaveInputsAlone ==
    [][pc = "route"
       => /\ al' = al
          /\ js' = js
          /\ unmod' # unmod => unmod' = Append(unmod, al)]_vars

\* a read was rewritten by clipMSR and its original written to unmod
C10_Witness ==
    /\ pc = "read" /\ saveMSRs
    /\ clipped # EmptyAlignment /\ clipped.cigar # al.cigar
    /\ unmod = <<al>> /\ mod = <<clipped>>

\* C11: routing one input record writes zero or one record to the primary
\* sink; it writes to the auxiliary sinks exactly when saveMSRs is on and
\* the record is a multiply-spliced read kept by the clipping path (allBad
\* false), and then one record to each: the rewritten copy to mod and the
\* original to unmod. So after every routed record mod and unmod hold the
\* same number of records, and no more than the primary sink.
C11_SinkWritesPerRecord ==
    [][pc = "route"
       => /\ \/ writer' = writer
             \/ /\ Len(writer') = Len(writer) + 1
                /\ SubSeq(writer', 1, Len(writer)) = writer
          /\ IF /\ saveMSRs /\ clipMode # "COMPLETE"
                /\ isMultiplySplicedRead(al) /\ ~allBad'
             THEN /\ mod' = Append(mod, clipped')
                  /\ unmod' = Append(unmod, al)
                  /\ clipped' # EmptyAlignment
             ELSE mod' = mod /\ unmod' = unmod
          /\ Len(mod') = Len(unmod')
          /\ Len(mod') <= Len(writer')]_vars

\* two records were emitted, one of them a clipped read saved to mod and unmod
C11_Witness ==
    /\ pc = "read" /\ saveMSRs /\ nbReadsIn = 2
    /\ Len(writer) = 2 /\ Len(mod) = 1 /\ Len(unmod) = 1
    /\ mod[1] # unmod[1]
    /\ unmod[1] = al /\ writer[2] = mod[1]

\* C12: a read without a ReferenceSkip is, in every clip mode and with any
\* junction index, the empty one included, written exactly once to the
\* primary sink as it was read and never to an auxiliary sink; it
\* increments the emitted counter and not the modified counter.
C12_UnsplicedPassesThrough ==
    [][(pc = "route" /\ SkipIndices(al) = {})
       => /\ writer' = Append(writer, al)
          /\ mod' = mod /\ unmod' = unmod
          /\ nbReadsOut' = nbReadsOut + 1
          /\ nbReadsModifiedOut' = nbReadsModifiedOut]_vars

\* an unspliced read came through an empty index with saveMSRs on
C12_Witness ==
    /\ pc = "read" /\ js = {} /\ saveMSRs /\ clipMode = "HARD"
    /\ al # EmptyAlignment /\ SkipIndices(al) = {}
    /\ nbReadsIn = 1 /\ nbReadsOut = 1 /\ nbReadsModifiedOut = 0
    /\ writer = <<al>> /\ mod = << >> /\ unmod = << >>

C14_MissingInputStopsConstruction ==
    /\ []((~junctionFileExists \/ ~bamFileExists)
          => /\ pc \in {"construct", "failed"}
             /\ opened = {}
             /\ nbReadsIn = 0 /\ al = EmptyAlignment
             /\ writer = << >> /\ mod = << >> /\ unmod = << >>)
    /\ [][(pc = "construct" /\ (~junctionFileExists \/ ~bamFileExists))
          => pc' = "failed"]_vars

\* construction failed on a missing BAM file, the junction file being there
C14_Witness ==
    /\ pc = "failed"
    /\ junctionFileExists /\ ~bamFileExists
    /\ opened = {} /\ nbReadsIn = 0 /\ writer = << >>

\* C15 as claimed: a spliced alignment whose refId is outside the reference
\* list (negative, or not below the number of reference sequences) ends the
\* run in a fatal error state: the record is neither skipped nor emitted,
\* and no junction is looked up for it.
C15_BadReferenceIsFatal ==
    [][(/\ pc = "route"
        /\ SkipIndices(al) # {}
        /\ (al.refId < 0 \/ al.refId >= refs))
       => /\ pc' = "failed"
          /\ lookups' = << >>
          /\ UNCHANGED sinks]_vars

\* C16: once the record loop is entered the run reaches the indexing step
\* (the stream is finite); the indexing command is invoked only from the
\* loop head, with every record read routed, and after the reader, the
\* primary sink and, with saveMSRs, both auxiliary sinks were closed; it
\* ends the run, and a non-zero exit code ends it in the fatal error state
\* with every sink holding the records it held.
C16_RunReachesIndexing ==
    /\ (pc \in {"read", "route"}) ~> (pc = "index")
    /\ [](pc \in {"index", "done", "failed"}
          => opened \cap {"reader", "writer", "mod", "unmod"} = {})
    /\ [][/\ (pc' = "index" /\ pc # "index") => pc = "read"
          /\ pc = "index" => (pc' \in {"done", "failed"} /\ UNCHANGED sinks)
          /\ pc \in {"done", "failed"} => FALSE]_vars

\* indexing failed after two records, one of them saved to mod and unmod
C16_Witness ==
    /\ pc = "failed" /\ saveMSRs /\ nbReadsIn = 2
    /\ Len(writer) = 2 /\ Len(mod) = 1 /\ Len(unmod) = 1
    /\ opened = {"junctions"}

(* ------------------ the regions clipMSR rewrites ----------------------- *)

\* the junction clipMSR looked up for the skip at index i was in the index
TrustedAt(i) ==
    \E k \in 1..Len(lookups) : lookups[k][1] = i /\ getJunction(js, lookups[k][2])

\* the index of the last skip before index i, 0 if there is none
PreviousSkip(i) ==
    LET before == {k \in SkipIndices(al) : k < i}
    IN IF before = {} THEN 0
       ELSE CHOOSE k \in before : \A m \in before : m <= k

\* the index of the first skip after index i, 0 if there is none
FollowingSkip(i) ==
    LET after == {k \in SkipIndices(al) : k > i}
    IN IF after = {} THEN 0
       ELSE CHOOSE k \in after : \A m \in after : k <= m

\* the operation at index i of the returned copy has the clip kind of the
\* mode and the length it had
ClippedAt(i) ==
    clipped.cigar[i] =
        CigarOp(IF clipMode = "HARD" THEN BAM_CIGAR_HARDCLIP_CHAR
                ELSE IF clipMode = "SOFT" THEN BAM_CIGAR_SOFTCLIP_CHAR
                ELSE BAM_CIGAR_DEL_CHAR,
                al.cigar[i].length)

\* C17 as claimed: at an untrusted skip at index i clipMSR gives every
\* operation at the indices regionStart..i, the skip itself included, the
\* clip kind of the mode and keeps its length, where regionStart is the
\* index after the previous skip (the first index if there is none), or i
\* itself when the previous junction was trusted.
C17_ClipsThroughUntrustedSkip ==
    pc = "clipped" =>
        \A i \in SkipIndices(al) :
            ~TrustedAt(i) =>
                LET p == PreviousSkip(i)
                    regionStart == IF p # 0 /\ TrustedAt(p) THEN i ELSE p + 1
                IN \A k \in regionStart..i : ClippedAt(k)

\* C18: when an untrusted skip is the next skip after a trusted one, clipMSR
\* rewrites none of the operations strictly between the two skips.
C18_KeepsSegmentAfterTrustedSkip ==
    pc = "clipped" =>
        \A i \in SkipIndices(al) :
            LET p == PreviousSkip(i)
            IN (p # 0 /\ TrustedAt(p) /\ ~TrustedAt(i))
               => \A k \in (p + 1)..(i - 1) : clipped.cigar[k] = al.cigar[k]

\* a trusted skip, a match, an untrusted skip and a match: the match between
\* the skips was kept and the one after the untrusted skip hard clipped
C18_Witness ==
    /\ pc = "clipped" /\ clipMode = "HARD"
    /\ al.cigar = SplicedCigar(2)
    /\ TrustedAt(2) /\ ~TrustedAt(4)
    /\ clipped.cigar[3] = al.cigar[3]
    /\ clipped.cigar[5].type = BAM_CIGAR_HARDCLIP_CHAR

DerivedFrom(rec, orig) ==
    /\ rec.refId = orig.refId /\ rec.position = orig.position
    /\ Len(rec.cigar) = Len(orig.cigar)
    /\ \A i \in 1..Len(orig.cigar) : rec.cigar[i].length = orig.cigar[i].length

\* sink grew by one record, and that record derives from the record read
AppendsDerived(before, after) ==
    /\ Len(after) = Len(before) + 1
    /\ SubSeq(after, 1, Len(before)) = before
    /\ DerivedFrom(after[Len(after)], al)

\* C20: processing is sequential and keeps the order of the stream. A sink
\* is written only while the record last read is routed, before the next
\* record is read, and reading writes nothing; what is appended to the
\* primary sink is one record, derived from the record last read, so the
\* primary sink holds, in stream order, records of distinct input records,
\* never more than were read; and the i-th records of mod and unmod derive
\* from the same input record: unmod holds the record as read and mod its
\* rewritten copy.
C20_WritesFollowTheStream ==
    /\ [][/\ sinks' # sinks
             => /\ pc = "route" /\ pc' = "read"
                /\ nbReadsIn' = nbReadsIn /\ al' = al
          /\ nbReadsIn' # nbReadsIn
             => /\ pc = "read" /\ pc' = "route"
                /\ nbReadsIn' = nbReadsIn + 1
                /\ sinks' = sinks
          /\ pc = "route" => pc' = "read"
          /\ writer' # writer => AppendsDerived(writer, writer')
          /\ (mod' # mod \/ unmod' # unmod)
             => /\ unmod' = Append(unmod, al)
                /\ AppendsDerived(mod, mod')]_vars
    /\ [](/\ Len(writer) <= nbReadsIn
          /\ Len(mod) = Len(unmod)
          /\ \A i \in 1..Len(mod) :
                /\ DerivedFrom(mod[i], unmod[i])
                /\ mod[i] = clipMSR(unmod[i], js, clipMode).modifiedAlignment)

\* of two records read the first was discarded and the second, a clipped
\* read, written to the three sinks
C20_Witness ==
    /\ pc = "read" /\ saveMSRs /\ nbReadsIn = 2
    /\ Len(writer) = 1 /\ writer[1] = clipped
    /\ clipped # al /\ DerivedFrom(clipped, al)
    /\ mod = <<clipped>> /\ unmod = <<al>>

====
